---- MODULE Spec2Model ----
(***************************************************************************)
(* Pickup lifecycle of wecan-hub: the driver job board                     *)
(* (pages/driver/jobs.tsx) and the admin dashboard's pickup-state select   *)
(* (pages/admin/index_new.tsx, pages/admin/index_backup.tsx) writing the   *)
(* "Pickup" and "Impact" tables of supabase/seed.sql.                      *)
(*                                                                         *)
(* Every supabase request is one statement executed atomically by the      *)
(* database; the client code around it (the mutationFn of a useMutation)   *)
(* runs concurrently with the other clients between requests.  A request   *)
(* returns {error}: error is null whenever the statement ran, whatever     *)
(* the number of rows its filters matched, and non-null when the store     *)
(* failed (transport, policy); a failed statement changes nothing.         *)
(* The row-level policies of seed.sql are taken to admit the caller.       *)
(*                                                                         *)
(* The bin report page (pages/bins/[id]/report.tsx) writes the "Bin"       *)
(* table when a QR code is scanned.                                        *)
(***************************************************************************)
EXTENDS Integers, Sequences, FiniteSets, TLC

\* ---------------------------------------------------------------- bounds
MaxTime  == 1   \* client clocks read 0..MaxTime
MaxCalls == 4   \* mutations issued in one behaviour (drivers' and admin's)
MaxCreated == 3 \* created_at of the listed Pickups is drawn from 1..MaxCreated
MaxRows  == 3   \* rows of the "Impact" ledgers the totals are computed over

\* ------------------------------------------------------------- constants
NULL == "null"            \* volunteer_id: string | null
CANS == 200
REVENUE_PENCE == 160
MEALS == 10

\* the rows of "Pickup": one job the drivers contend for
PickupIds == {"P"}
\* an id that resolves to no row
MissingId == "X"
\* the ids a mutation can be given
CallIds   == PickupIds \cup {MissingId}
\* the signed-in drivers (user.id), each with one job board session
Drivers   == {"driverA", "driverB"}
Times     == 0..MaxTime
States    == {"queued", "assigned", "collected", "delivered"}

VARIABLES
    Pickup,     \* the "Pickup" table: id -> row
    Impact,     \* the "Impact" table: the rows in insertion order
    mutation,   \* per driver session: the mutation in flight or last settled
    issued,     \* number of mutations issued so far
    pickups,    \* the admin dashboard's cached 'pickups' query: id -> state shown
    availableJobs,  \* per driver session: the 'availableJobs' query
    myJobs,         \* per driver session: the 'myJobs' query
    impact,         \* per admin page: the 'impact' query
    Bin,            \* the "Bin" table: id -> row
    BinReport       \* the bin report page: router.query.id, status, error

vars == <<Pickup, Impact, mutation, issued, pickups, availableJobs, myJobs, impact,
          Bin, BinReport>>

\* the state of the bin report flow
reporting == <<Bin, BinReport>>

\* the queries of the job board and of the admin's impact panel
queries == <<availableJobs, myJobs, impact>>

\* created_at timestamptz default now(): set by the store at creation
CreatedAt(p) == 1

\* a row of "Pickup" as the reporting flow creates it
NewPickup(p) ==
    [bin_id |-> p, volunteer_id |-> NULL, state |-> "queued",
     created_at |-> CreatedAt(p), updated_at |-> CreatedAt(p)]

\* ------------------------------------------------------ the store (supabase)
\* .update(fields): the named columns are overwritten, the others kept
ApplyFields(row, fields) ==
    [c \in DOMAIN row |-> IF c \in DOMAIN fields THEN fields[c] ELSE row[c]]

\* .from(tbl).update(fields).eq(...): every row the filters match is updated
Update(tbl, matched, fields) ==
    [p \in DOMAIN tbl |->
        IF p \in matched THEN ApplyFields(tbl[p], fields) ELSE tbl[p]]

\* .eq('id', id): the rows whose id column equals id
EqId(tbl, id) == {p \in DOMAIN tbl : p = id}

\* .eq('state', state): the rows whose state column equals state
EqState(tbl, state) == {p \in DOMAIN tbl : tbl[p].state = state}

\* .from('Impact').insert(row)
Insert(tbl, row) == Append(tbl, row)

\* what the id resolves to when a statement runs
StoredState(tbl, id) == IF id \in DOMAIN tbl THEN tbl[id].state ELSE "missing"

\* what an update's filters met: the stored state, or nothing when the store failed
Found(tbl, id, error) == IF error THEN "unavailable" ELSE StoredState(tbl, id)

\* ------------------------------------------------- driver/jobs.tsx requests
\* acceptJob with the state filter left out
acceptJobUpdate_NoStateFilter(tbl, pickupId, user, ts) ==
    Update(tbl, EqId(tbl, pickupId),
           [state |-> "assigned", volunteer_id |-> user, updated_at |-> ts])

\* acceptJob filtering on "not yet collected" instead of "queued"
acceptJobUpdate_UntilCollected(tbl, pickupId, user, ts) ==
    Update(tbl, EqId(tbl, pickupId)
                  \cap (EqState(tbl, "queued") \cup EqState(tbl, "assigned")),
           [state |-> "assigned", volunteer_id |-> user, updated_at |-> ts])

\* acceptJob: update({state:'assigned', volunteer_id: user.id, updated_at})
\*            .eq('id', pickupId).eq('state', 'queued')
acceptJobUpdate(tbl, pickupId, user, ts) ==
    Update(tbl, EqId(tbl, pickupId) \cap EqState(tbl, "queued"),
           [state |-> "assigned", volunteer_id |-> user, updated_at |-> ts])

\* markCollected that forgets to write updated_at
markCollectedUpdate_NoTimestamp(tbl, pickupId, ts) ==
    Update(tbl, EqId(tbl, pickupId) \cap EqState(tbl, "assigned"),
           [state |-> "collected"])

\* markCollected: update({state:'collected', updated_at})
\*                .eq('id', pickupId).eq('state', 'assigned')
markCollectedUpdate(tbl, pickupId, ts) ==
    Update(tbl, EqId(tbl, pickupId) \cap EqState(tbl, "assigned"),
           [state |-> "collected", updated_at |-> ts])

\* markDelivered, first request: update({state:'delivered', updated_at})
\*                               .eq('id', pickupId).eq('state', 'collected')
markDeliveredUpdate(tbl, pickupId, ts) ==
    Update(tbl, EqId(tbl, pickupId) \cap EqState(tbl, "collected"),
           [state |-> "delivered", updated_at |-> ts])

\* markDelivered recording no revenue
markDeliveredInsert_NoRevenue(tbl) ==
    Insert(tbl, [cans |-> CANS, revenue_pence |-> 0, meals |-> MEALS])

\* markDelivered inserting a correction row of negative amounts
markDeliveredInsert_Refund(tbl) ==
    Insert(tbl, [cans |-> 0 - CANS, revenue_pence |-> 0 - REVENUE_PENCE, meals |-> 0 - MEALS])

\* markDelivered, second request: insert({cans: 200, revenue_pence: 160, meals: 10})
markDeliveredInsert(tbl) ==
    Insert(tbl, [cans |-> CANS, revenue_pence |-> REVENUE_PENCE, meals |-> MEALS])

\* markDelivered without `if (pickupError) throw pickupError`
markDeliveredNext_IgnoreError(pickupError) == "insert"

\* markDelivered between its two requests: `if (pickupError) throw pickupError`
\* is the only exit; the insert follows whenever the update returned no error
markDeliveredNext(pickupError) == IF pickupError THEN "settled" ELSE "insert"

\* useMutation: a mutationFn that throws ends in onError, any other in onSuccess
Settle(error) == IF error THEN "error" ELSE "success"

\* ------------------------------------------------ admin/index_*.tsx request
\* updatePickup / updatePickupState: update({state, updated_at}).eq('id', id)
updatePickupUpdate(tbl, id, state, ts) ==
    Update(tbl, EqId(tbl, id), [state |-> state, updated_at |-> ts])

\* ------------------------------------------------- driver/jobs.tsx queries
\* the ids a list holds
Range(seq) == {seq[i] : i \in DOMAIN seq}

\* what a select can return for the rows it matched: each row once, in some order
Listings(matched) ==
    {seq \in [1..Cardinality(matched) -> matched] :
        \A i, j \in 1..Cardinality(matched) : i # j => seq[i] # seq[j]}

\* .order('created_at', {ascending: true}): no row comes before an older one;
\* the order among rows of equal created_at is the store's
Ascending(tbl, seq) ==
    \A i, j \in DOMAIN seq : i < j => tbl[seq[i]].created_at <= tbl[seq[j]].created_at

\* .order('created_at', {ascending: false}), as the admin's lists are ordered
Descending(tbl, seq) ==
    \A i, j \in DOMAIN seq : i < j => tbl[seq[i]].created_at >= tbl[seq[j]].created_at

\* .eq('volunteer_id', user)
EqVolunteer(tbl, user) == {p \in DOMAIN tbl : tbl[p].volunteer_id = user}

\* .in('state', states)
InState(tbl, states) == {p \in DOMAIN tbl : tbl[p].state \in states}

\* availableJobs ordered newest first
availableJobsQuery_Descending(tbl) ==
    {seq \in Listings(EqState(tbl, "queued")) : Descending(tbl, seq)}

\* availableJobs queryFn: select(...).eq('state', 'queued').order('created_at', asc);
\* the lists the request can return (of each row its id)
availableJobsQuery(tbl) ==
    {seq \in Listings(EqState(tbl, "queued")) : Ascending(tbl, seq)}

\* myJobs without the .in('state', ...) filter
myJobsQuery_AnyState(tbl, user) ==
    {seq \in Listings(EqVolunteer(tbl, user)) : Ascending(tbl, seq)}

\* myJobs without the .eq('volunteer_id', ...) filter
myJobsQuery_AnyVolunteer(tbl, user) ==
    {seq \in Listings(InState(tbl, {"assigned", "collected"})) : Ascending(tbl, seq)}

\* myJobs queryFn: select(...).eq('volunteer_id', user.id)
\*                 .in('state', ['assigned', 'collected']).order('created_at', asc)
myJobsQuery(tbl, user) ==
    {seq \in Listings(EqVolunteer(tbl, user) \cap InState(tbl, {"assigned", "collected"})) :
        Ascending(tbl, seq)}

\* useQuery before the first result of its queryFn: data is undefined
NoData == [status |-> "pending", data |-> << >>]

\* useQuery after its queryFn returned: the list holds the one value returned
Success(data) == [status |-> "success", data |-> <<data>>]

\* useQuery after its queryFn threw: the data of the last success is kept
Failure(cached) == [status |-> "error", data |-> cached.data]

\* ------------------------------------------------- admin impact queries
\* a null column of "Impact" (cans int, revenue_pence int, meals int are nullable)
NullColumn == -1

\* (curr.cans || 0)
OrZero(v) == IF v = NullColumn THEN 0 ELSE v

\* the initial value of the reduce: { cans: 0, revenue_pence: 0, meals: 0 }
Zero == [cans |-> 0, revenue_pence |-> 0, meals |-> 0]

\* a reducer that keeps the last row's cans instead of adding them up
reducer_Overwrite(acc, curr) ==
    [cans          |-> OrZero(curr.cans),
     revenue_pence |-> acc.revenue_pence + OrZero(curr.revenue_pence),
     meals         |-> acc.meals + OrZero(curr.meals)]

\* the callback of data.reduce in index_backup.tsx
reducer(acc, curr) ==
    [cans          |-> acc.cans + OrZero(curr.cans),
     revenue_pence |-> acc.revenue_pence + OrZero(curr.revenue_pence),
     meals         |-> acc.meals + OrZero(curr.meals)]

\* Array.prototype.reduce(reducer, acc): a left fold over the rows as returned
RECURSIVE reduce(_, _)
reduce(data, acc) ==
    IF data = << >> THEN acc ELSE reduce(Tail(data), reducer(acc, Head(data)))

\* from('Impact').select('cans, revenue_pence, meals') has no order clause:
\* the rows of the table, in an order of the store's choosing
SelectAll(tbl) ==
    {[i \in DOMAIN tbl |-> tbl[perm[i]]] : perm \in Listings(DOMAIN tbl)}

\* index_backup.tsx impact queryFn on the rows the select returned
impactQuery(data) == reduce(data, Zero)

\* the two admin pages with an 'impact' query
Pages == {"index_backup", "index_new"}

\* index_new.tsx impact queryFn: select('*').single() returns the row when the
\* table holds exactly one, and an error (which the queryFn throws) otherwise
impactSingleQuery(tbl, cached) ==
    IF Len(tbl) = 1 THEN Success(tbl[1]) ELSE Failure(cached)

\* index_new.tsx, the totals panel: {impact?.cans || 0} and the two others
\* (revenue_pence before it is formatted as pounds)
impactShown(data) ==
    IF data = << >> THEN Zero
    ELSE [cans          |-> OrZero(data[1].cans),
          revenue_pence |-> OrZero(data[1].revenue_pence),
          meals         |-> OrZero(data[1].meals)]

\* ------------------------------------------- bins/[id]/report.tsx (BinReport)
\* the rows of "Bin"
BinIds == {"B1", "B2"}

\* status text check (status in ('empty','full','needs_pickup'))
BinStatuses == {"empty", "full", "needs_pickup"}

\* what "Bin".id accepts in a filter: the ids of the rows and one of no row;
\* for any other text the store answers with an error (id is of type uuid)
Uuids == BinIds \cup {"B9"}

\* router.query.id (string | string[] | undefined) with its typeof: absent,
\* an array, the empty string, the id of a Bin, a uuid of no Bin, not a uuid
RouterIds ==
    {[typeof |-> "undefined", value |-> ""],
     [typeof |-> "object", value |-> "B1"],
     [typeof |-> "string", value |-> ""]}
    \cup {[typeof |-> "string", value |-> v] : v \in Uuids \cup {"not-a-uuid"}}

\* if (!id || typeof id !== 'string')
InvalidBinId(id) == id.typeof = "undefined" \/ id.value = "" \/ id.typeof # "string"

\* the page as mounted: useState('loading'), useState('')
Mounted(id) == [id |-> id, status |-> "loading", error |-> ""]

\* reportBinFull after the await: `if (error) throw error` then
\* setStatus('success'), the catch block setStatus('error')
reportBinFullStatus(error) == IF error THEN "error" ELSE "success"

\* update({ status: 'full' }).eq('id', id)
reportBinFullUpdate(tbl, id) == Update(tbl, EqId(tbl, id), [status |-> "full"])

\* no report page is open
NoReport ==
    /\ Bin = [b \in BinIds |-> [status |-> "empty"]]
    /\ BinReport = Mounted([typeof |-> "undefined", value |-> ""])

\* ------------------------------------------------------------ the sessions
\* the state a mutation's conditional write expects
Expected(op) ==
    CASE op = "acceptJob"     -> "queued"
      [] op = "markCollected" -> "assigned"
      [] op = "markDelivered" -> "collected"

Ops == {"acceptJob", "markCollected", "markDelivered"}

\* a session with no mutation issued yet
Idle == [op |-> "none", id |-> "none", pc |-> "idle", seen |-> "none",
         updated_at |-> -1, pre |-> "none", outcome |-> "none"]

\* a mutation under way: its first request not yet executed by the store.
\* seen records what the id resolved to when mutate() was called; updated_at is
\* the `new Date().toISOString()` the client put in the update request, kept
\* while that request is under way; pre will record what the update's filters met
Pending(op, id, ts) ==
    [op |-> op, id |-> id, pc |-> "update", seen |-> StoredState(Pickup, id),
     updated_at |-> ts, pre |-> "none", outcome |-> "none"]

Init ==
    /\ Pickup = [p \in PickupIds |-> NewPickup(p)]
    /\ Impact = << >>
    /\ mutation = [d \in Drivers |-> Idle]
    /\ issued = 0
    /\ pickups = << >>
    /\ availableJobs = [d \in Drivers |-> NoData]
    /\ myJobs = [d \in Drivers |-> NoData]
    /\ impact = [page \in Pages |-> NoData]
    /\ NoReport

\* onClick={() => acceptJob.mutate(job.id)} and the two other buttons: the id
\* comes from the session's cached lists, which may be stale
Mutate(d, op, id, ts) ==
    /\ mutation[d].pc \in {"idle", "settled"}
    /\ issued < MaxCalls
    /\ mutation' = [mutation EXCEPT ![d] = Pending(op, id, ts)]
    /\ issued' = issued + 1
    /\ UNCHANGED <<Pickup, Impact, pickups, queries, reporting>>

\* acceptJob.mutationFn: the one request and the settling of the mutation.
\* `if (!user?.id) throw` never fires here: the page renders its buttons only
\* for a signed-in user, and every session of Drivers is one
AcceptJobRequest(d, error) ==
    /\ mutation[d].op = "acceptJob" /\ mutation[d].pc = "update"
    /\ Pickup' = IF error THEN Pickup
                 ELSE acceptJobUpdate(Pickup, mutation[d].id, d, mutation[d].updated_at)
    /\ mutation' = [mutation EXCEPT ![d].pc = "settled",
                                    ![d].updated_at = -1,
                                    ![d].pre = Found(Pickup, mutation[d].id, error),
                                    ![d].outcome = Settle(error)]
    /\ UNCHANGED <<Impact, issued, pickups, queries, reporting>>

\* markCollected.mutationFn
MarkCollectedRequest(d, error) ==
    /\ mutation[d].op = "markCollected" /\ mutation[d].pc = "update"
    /\ Pickup' = IF error THEN Pickup
                 ELSE markCollectedUpdate(Pickup, mutation[d].id, mutation[d].updated_at)
    /\ mutation' = [mutation EXCEPT ![d].pc = "settled",
                                    ![d].updated_at = -1,
                                    ![d].pre = Found(Pickup, mutation[d].id, error),
                                    ![d].outcome = Settle(error)]
    /\ UNCHANGED <<Impact, issued, pickups, queries, reporting>>

\* markDelivered.mutationFn up to the first await's return
MarkDeliveredUpdateRequest(d, pickupError) ==
    /\ mutation[d].op = "markDelivered" /\ mutation[d].pc = "update"
    /\ Pickup' = IF pickupError THEN Pickup
                 ELSE markDeliveredUpdate(Pickup, mutation[d].id, mutation[d].updated_at)
    /\ mutation' = [mutation EXCEPT
                      ![d].pc = markDeliveredNext(pickupError),
                      ![d].updated_at = -1,
                      ![d].pre = Found(Pickup, mutation[d].id, pickupError),
                      ![d].outcome = IF markDeliveredNext(pickupError) = "settled"
                                     THEN Settle(pickupError) ELSE "none"]
    /\ UNCHANGED <<Impact, issued, pickups, queries, reporting>>

\* markDelivered.mutationFn from the second request to the end
MarkDeliveredInsertRequest(d, impactError) ==
    /\ mutation[d].op = "markDelivered" /\ mutation[d].pc = "insert"
    /\ Impact' = IF impactError THEN Impact ELSE markDeliveredInsert(Impact)
    /\ mutation' = [mutation EXCEPT ![d].pc = "settled",
                                    ![d].outcome = Settle(impactError)]
    /\ UNCHANGED <<Pickup, issued, pickups, queries, reporting>>

\* the admin's 'pickups' query: select('*') from "Pickup"; `data: pickups = []`
\* until the first fetch, and a failed fetch keeps what was cached.  Of each
\* cached row the state column is kept: it is the value the select shows
pickupsQuery(tbl, cached, error) ==
    IF error THEN cached ELSE [p \in DOMAIN tbl |-> tbl[p].state]

\* the query runs: on mount, and again after invalidateQueries(['pickups'])
FetchPickups(error) ==
    /\ pickups' = pickupsQuery(Pickup, pickups, error)
    /\ UNCHANGED <<Pickup, Impact, mutation, issued, queries, reporting>>

\* the select of a listed row, <select value={pickup.state} onChange=...>:
\* onChange fires for an option other than the one shown
Selectable(cached, id, state) == id \in DOMAIN cached /\ state # cached[id]

\* updatePickup.mutate({id, state}): the one request of the admin's mutation
UpdatePickup(id, state, ts, error) ==
    /\ issued < MaxCalls
    /\ Pickup' = IF error THEN Pickup ELSE updatePickupUpdate(Pickup, id, state, ts)
    /\ issued' = issued + 1
    /\ UNCHANGED <<Impact, mutation, pickups, queries, reporting>>

\* the availableJobs query of session d runs (on mount, after invalidateQueries)
FetchAvailableJobs(d) ==
    /\ \E data \in availableJobsQuery(Pickup) :
          availableJobs' = [availableJobs EXCEPT ![d] = Success(data)]
    /\ UNCHANGED <<Pickup, Impact, mutation, issued, pickups, myJobs, impact, reporting>>

\* the myJobs query of session d runs; user.id is d
FetchMyJobs(d) ==
    /\ \E data \in myJobsQuery(Pickup, d) :
          myJobs' = [myJobs EXCEPT ![d] = Success(data)]
    /\ UNCHANGED <<Pickup, Impact, mutation, issued, pickups, availableJobs, impact, reporting>>

\* the impact query of index_backup.tsx runs
FetchImpact ==
    /\ \E data \in SelectAll(Impact) :
          impact' = [impact EXCEPT !["index_backup"] = Success(impactQuery(data))]
    /\ UNCHANGED <<Pickup, Impact, mutation, issued, pickups, availableJobs, myJobs, reporting>>

\* the impact query of index_new.tsx runs
FetchImpactSingle ==
    /\ impact' = [impact EXCEPT !["index_new"] = impactSingleQuery(Impact, @)]
    /\ UNCHANGED <<Pickup, Impact, mutation, issued, pickups, availableJobs, myJobs, reporting>>

DriverNext ==
    \/ \E d \in Drivers, op \in Ops, id \in CallIds, ts \in Times : Mutate(d, op, id, ts)
    \/ \E d \in Drivers, error \in BOOLEAN : AcceptJobRequest(d, error)
    \/ \E d \in Drivers, error \in BOOLEAN : MarkCollectedRequest(d, error)
    \/ \E d \in Drivers, error \in BOOLEAN : MarkDeliveredUpdateRequest(d, error)
    \/ \E d \in Drivers, error \in BOOLEAN : MarkDeliveredInsertRequest(d, error)

\* the admin's select: onChange={(e) => updatePickup.mutate({id, state})}
SelectState(id, state, ts, error) ==
    /\ Selectable(pickups, id, state)
    /\ UpdatePickup(id, state, ts, error)

\* the admin, whatever the dashboard shows: any listed row, any option
AdminNext ==
    \E id \in PickupIds, state \in States, ts \in Times, error \in BOOLEAN :
        UpdatePickup(id, state, ts, error)

\* the admin through the dashboard: the rows and states its query cached
DashboardNext ==
    \/ \E error \in BOOLEAN : FetchPickups(error)
    \/ \E id \in PickupIds, state \in States, ts \in Times, error \in BOOLEAN :
          SelectState(id, state, ts, error)

Next == DriverNext \/ AdminNext

\* drivers and the admin
Spec == Init /\ [][Next]_vars

\* the drivers alone: no admin is signed in
SpecDrivers == Init /\ [][DriverNext]_vars

\* drivers and the admin, the admin's writes tied to what the dashboard shows
SpecDashboard == Init /\ [][DriverNext \/ DashboardNext]_vars

\* ---------------------------------------------- the job board's two lists
\* the Pickups of a table the lists are read from
QueryIds == {"P", "Q", "R"}

\* any table of these Pickups: whatever state, volunteer and age each has
PickupTables ==
    {[p \in QueryIds |->
         [bin_id |-> p, volunteer_id |-> v[p], state |-> st[p],
          created_at |-> c[p], updated_at |-> c[p]]] :
       v \in [QueryIds -> Drivers \cup {NULL}],
       st \in [QueryIds -> States],
       c \in [QueryIds -> 1..MaxCreated]}

InitQueries ==
    /\ Pickup \in PickupTables
    /\ Impact = << >>
    /\ mutation = [d \in Drivers |-> Idle]
    /\ issued = 0
    /\ pickups = << >>
    /\ availableJobs = [d \in Drivers |-> NoData]
    /\ myJobs = [d \in Drivers |-> NoData]
    /\ impact = [page \in Pages |-> NoData]
    /\ NoReport

QueriesNext ==
    \/ \E d \in Drivers : FetchAvailableJobs(d)
    \/ \E d \in Drivers : FetchMyJobs(d)

\* the two queries of the job board read from any table; the store answers
SpecQueries == InitQueries /\ [][QueriesNext]_vars

\* ---------------------------------------------- the admin's impact totals
\* rows of "Impact": a delivery's, two smaller ones, one with null columns
ImpactRows ==
    {[cans |-> CANS, revenue_pence |-> REVENUE_PENCE, meals |-> MEALS],
     [cans |-> 10, revenue_pence |-> 5, meals |-> 1],
     [cans |-> 20, revenue_pence |-> 10, meals |-> 2],
     [cans |-> NullColumn, revenue_pence |-> 5, meals |-> NullColumn]}

\* any ledger of at most MaxRows of these rows
Ledgers == UNION {[1..n -> ImpactRows] : n \in 0..MaxRows}

InitImpact ==
    /\ Pickup = [p \in PickupIds |-> NewPickup(p)]
    /\ Impact \in Ledgers
    /\ mutation = [d \in Drivers |-> Idle]
    /\ issued = 0
    /\ pickups = << >>
    /\ availableJobs = [d \in Drivers |-> NoData]
    /\ myJobs = [d \in Drivers |-> NoData]
    /\ impact = [page \in Pages |-> NoData]
    /\ NoReport

ImpactNext == FetchImpact \/ FetchImpactSingle

\* the impact queries of the two admin pages read from any ledger
SpecImpact == InitImpact /\ [][ImpactNext]_vars

\* ------------------------------------------------- deliveries of collected jobs
\* two jobs that have been claimed and collected, one by each driver
DeliveryIds == {"P", "Q"}

\* the driver whose myJobs lists the job
CollectedBy(p) == IF p = "P" THEN "driverA" ELSE "driverB"

\* a row of "Pickup" after acceptJob and markCollected took effect on it
CollectedPickup(p) ==
    [bin_id |-> p, volunteer_id |-> CollectedBy(p), state |-> "collected",
     created_at |-> CreatedAt(p), updated_at |-> CreatedAt(p)]

InitDelivery ==
    /\ Pickup = [p \in DeliveryIds |-> CollectedPickup(p)]
    /\ Impact = << >>
    /\ mutation = [d \in Drivers |-> Idle]
    /\ issued = 0
    /\ pickups = << >>
    /\ availableJobs = [d \in Drivers |-> NoData]
    /\ myJobs = [d \in Drivers |-> NoData]
    /\ impact = [page \in Pages |-> NoData]
    /\ NoReport

\* 'Mark as Delivered' on a listed job, and the two requests of markDelivered
DeliveryNext ==
    \/ \E d \in Drivers, id \in DeliveryIds, ts \in Times :
          Mutate(d, "markDelivered", id, ts)
    \/ \E d \in Drivers, error \in BOOLEAN : MarkDeliveredUpdateRequest(d, error)
    \/ \E d \in Drivers, error \in BOOLEAN : MarkDeliveredInsertRequest(d, error)

\* the drivers marking collected jobs delivered
SpecDelivery == InitDelivery /\ [][DeliveryNext]_vars

\* ------------------------------------------------------- the bin report page
\* the effect of the page once router.isReady: reportBinFull()
ReportBinFull(error) ==
    /\ BinReport.status = "loading"
    /\ IF InvalidBinId(BinReport.id)
       THEN /\ ~error
            /\ BinReport' = [BinReport EXCEPT !.status = "error",
                                              !.error = "Invalid bin ID"]
            /\ Bin' = Bin
       ELSE LET failed == error \/ BinReport.id.value \notin Uuids
                status == reportBinFullStatus(failed)
            IN  /\ Bin' = IF failed THEN Bin
                          ELSE reportBinFullUpdate(Bin, BinReport.id.value)
                /\ BinReport' = [BinReport EXCEPT
                                   !.status = status,
                                   !.error = IF status = "error"
                                             THEN "Failed to report bin as full. Please try again."
                                             ELSE ""]
    /\ UNCHANGED <<Pickup, Impact, mutation, issued, pickups, queries>>

\* 'Try Again': window.location.reload() mounts the page anew on the same URL
TryAgain ==
    /\ BinReport.status = "error"
    /\ BinReport' = Mounted(BinReport.id)
    /\ UNCHANGED <<Pickup, Impact, mutation, issued, pickups, queries, Bin>>

InitReport ==
    /\ Pickup = [p \in PickupIds |-> NewPickup(p)]
    /\ Impact = << >>
    /\ mutation = [d \in Drivers |-> Idle]
    /\ issued = 0
    /\ pickups = << >>
    /\ availableJobs = [d \in Drivers |-> NoData]
    /\ myJobs = [d \in Drivers |-> NoData]
    /\ impact = [page \in Pages |-> NoData]
    /\ Bin \in [BinIds -> [status : BinStatuses]]
    /\ BinReport \in {Mounted(id) : id \in RouterIds}

ReportNext ==
    \/ \E error \in BOOLEAN : ReportBinFull(error)
    \/ TryAgain

\* the report page opened on any URL over any "Bin" table
SpecReport == InitReport /\ [][ReportNext]_vars

TypeOK ==
    /\ DOMAIN Pickup = PickupIds
    /\ \A p \in PickupIds :
          /\ Pickup[p].state \in States
          /\ Pickup[p].volunteer_id \in Drivers \cup {NULL}
          /\ Pickup[p].updated_at \in Times \cup {CreatedAt(p)}
    /\ Len(Impact) <= MaxCalls
    /\ issued \in 0..MaxCalls

\* ------------------------------------------------------------- vocabulary
\* the mutation of session d has been settled (onSuccess or onError has run)
Settled(d, op) == mutation[d].op = op /\ mutation[d].pc = "settled"

\* this step is the store executing the update request of session d's mutation
UpdateStepOf(d, op) ==
    /\ mutation[d].op = op
    /\ mutation[d].pc = "update"
    /\ mutation'[d].pc # "update"

\* this step is the store executing the insert request of session d's markDelivered
InsertStepOf(d) ==
    /\ mutation[d].op = "markDelivered"
    /\ mutation[d].pc = "insert"
    /\ mutation'[d].pc = "settled"

\* the chain queued -> assigned -> collected -> delivered
Successor(state) ==
    CASE state = "queued"    -> "assigned"
      [] state = "assigned"  -> "collected"
      [] state = "collected" -> "delivered"
      [] state = "delivered" -> "none"

Delivered == {p \in PickupIds : Pickup[p].state = "delivered"}

\* ------------------------------------------------------------------ claims

\* C1: of the claims (acceptJob) that distinct drivers issued on the same queued
\* Pickup and that the store executed, exactly one is settled as a success and
\* every other as a failure; the Pickup is then no longer queued and its
\* volunteer_id is the driver whose claim succeeded.
C1_ExactlyOneConcurrentClaimSucceeds ==
    \A p \in PickupIds :
        LET racers  == {d \in Drivers : /\ Settled(d, "acceptJob")
                                        /\ mutation[d].id = p
                                        /\ mutation[d].seen = "queued"
                                        /\ mutation[d].pre # "unavailable"}
            winners == {d \in racers : mutation[d].outcome = "success"}
        IN  Cardinality(racers) >= 2 =>
                /\ Cardinality(winners) = 1
                /\ \A d \in racers \ winners : mutation[d].outcome = "error"
                /\ \A d \in winners : /\ Pickup[p].state # "queued"
                                      /\ Pickup[p].volunteer_id = d

\* C2: the insert of markDelivered adds an Impact row only when the update of the
\* same call met the Pickup in state collected, that is, changed it to delivered.
C2_AppendOnlyAfterTransition ==
    [][\A d \in Drivers :
          (InsertStepOf(d) /\ mutation[d].pre # "collected") => Impact' = Impact]_vars

\* C3: with the drivers alone, a markDelivered issued on a Pickup that an earlier
\* markDelivered has already delivered is settled as a failure and adds no Impact
\* row: the ledger holds at most the one row of the first call.
C3_SecondMarkDeliveredConflicts ==
    \A d \in Drivers :
        (Settled(d, "markDelivered") /\ mutation[d].seen = "delivered"
                                     /\ mutation[d].pre = "delivered") =>
            /\ mutation[d].outcome = "error"
            /\ Len(Impact) <= Cardinality(Delivered)

\* C4: volunteer_id is set if and only if state is not queued.
C4_VolunteerIffNotQueued ==
    \A p \in PickupIds :
        (Pickup[p].volunteer_id # NULL) <=> (Pickup[p].state # "queued")

\* C5: every change of a Pickup's state moves it to the immediate successor of its
\* current state in the chain queued -> assigned -> collected -> delivered.
C5_OnlySuccessorTransitions ==
    [][\A p \in PickupIds :
          Pickup'[p].state # Pickup[p].state =>
              Pickup'[p].state = Successor(Pickup[p].state)]_vars

\* C6: a claim whose update met the Pickup in a state other than queued is never
\* settled as a success.
C6_ClaimOnNonQueuedConflicts ==
    \A d \in Drivers :
        (Settled(d, "acceptJob")
            /\ mutation[d].pre \in {"assigned", "collected", "delivered"}) =>
                mutation[d].outcome = "error"

\* C7: the update of a claim that meets the Pickup in a state other than queued
\* leaves every column of the row (state, volunteer_id, updated_at) as it was.
C7_ClaimOnNonQueuedLeavesRow ==
    [][\A d \in Drivers :
          (UpdateStepOf(d, "acceptJob")
              /\ StoredState(Pickup, mutation[d].id) \in States \ {"queued"}) =>
                  Pickup'[mutation[d].id] = Pickup[mutation[d].id]]_vars

\* C7 witness: a claim by a driver other than the assigned volunteer has been
\* executed on a Pickup that was not queued.
C7_Witness ==
    \E d \in Drivers :
        /\ Settled(d, "acceptJob")
        /\ mutation[d].id \in PickupIds
        /\ mutation[d].pre \in {"assigned", "collected", "delivered"}
        /\ Pickup[mutation[d].id].volunteer_id \notin {d, NULL}

\* C8: with the drivers alone, a claim's update changes a row only if its
\* volunteer_id was unset, and sets it to the claiming driver; once set,
\* volunteer_id never changes.  So at most one claim takes effect per Pickup.
C8_AtMostOneClaimTakesEffect ==
    [][\A p \in PickupIds :
          /\ Pickup[p].volunteer_id # NULL =>
                Pickup'[p].volunteer_id = Pickup[p].volunteer_id
          /\ \A d \in Drivers :
                (UpdateStepOf(d, "acceptJob") /\ Pickup'[p] # Pickup[p]) =>
                    /\ Pickup[p].volunteer_id = NULL
                    /\ Pickup'[p].volunteer_id = d]_vars

\* C8 witness: two claims issued on the same queued Pickup have both been
\* executed; the first met it queued, the second met it assigned, and the row
\* carries the first driver's id.
C8_Witness ==
    \E d \in Drivers : \E e \in Drivers \ {d} :
        /\ Settled(d, "acceptJob") /\ Settled(e, "acceptJob")
        /\ mutation[d].id \in PickupIds /\ mutation[e].id = mutation[d].id
        /\ mutation[d].seen = "queued" /\ mutation[e].seen = "queued"
        /\ mutation[d].pre = "queued" /\ mutation[e].pre = "assigned"
        /\ Pickup[mutation[d].id].volunteer_id = d

\* C9: whenever no markDelivered is in flight, the number of Impact rows equals
\* the number of delivered Pickups.
C9_OneImpactPerDelivered ==
    (\A d \in Drivers :
        ~(mutation[d].op = "markDelivered" /\ mutation[d].pc \in {"update", "insert"}))
    => Len(Impact) = Cardinality(Delivered)

\* C10: a mutation whose update met an existing Pickup in a state other than the
\* expected one (Conflict), or met no Pickup (NotFound), is never settled as a
\* success, and the two cases are settled with different outcomes.
C10_ConflictDistinctFromNotFound ==
    \A d \in Drivers, e \in Drivers :
        LET conflict(x) == /\ mutation[x].pc = "settled"
                           /\ mutation[x].pre \in States \ {Expected(mutation[x].op)}
            notFound(x) == /\ mutation[x].pc = "settled"
                           /\ mutation[x].pre = "missing"
        IN  /\ (conflict(d) \/ notFound(d)) => mutation[d].outcome # "success"
            /\ (conflict(d) /\ notFound(e)) => mutation[d].outcome # mutation[e].outcome

\* C11: a mutation given an id that resolves to no Pickup is settled as a failure
\* by its first request, changes no Pickup and adds no Impact row.
C11_MissingIdReportsNotFound ==
    [][\A d \in Drivers :
          (/\ mutation[d].pc \in {"update", "insert"}
           /\ mutation[d].id \notin DOMAIN Pickup
           /\ mutation'[d].pc # mutation[d].pc) =>
              /\ Pickup' = Pickup
              /\ Impact' = Impact
              /\ mutation'[d].pc = "settled"
              /\ mutation'[d].outcome = "error"]_vars

\* C12: a write changes a Pickup only if the stored state is the state the writer
\* expects: for a driver's mutation the precondition state of the operation, for
\* the admin the state the dashboard showed when the option was selected.
C12_WritesAreConditional ==
    [][\A p \in PickupIds :
          Pickup'[p] # Pickup[p] =>
              \/ \E d \in Drivers :
                    /\ mutation[d].pc = "update" /\ mutation'[d].pc # "update"
                    /\ mutation[d].id = p
                    /\ Pickup[p].state = Expected(mutation[d].op)
              \/ /\ issued' # issued
                 /\ \A d \in Drivers : mutation'[d].pc = mutation[d].pc
                 /\ p \in DOMAIN pickups
                 /\ Pickup[p].state = pickups[p]]_vars

\* C13: a delivered Pickup stays delivered, and no Pickup is ever deleted.
C13_DeliveredIsTerminal ==
    [][/\ DOMAIN Pickup \subseteq DOMAIN Pickup'
       /\ \A p \in PickupIds :
             Pickup[p].state = "delivered" => Pickup'[p].state = "delivered"]_vars

\* C14: the update of markCollected changes the row if and only if it is stored
\* as assigned; it then sets state to collected and updated_at to the request's
\* timestamp and keeps volunteer_id, bin_id and created_at.  In every other
\* state, and when the store fails, the row is left as it was.
C14_MarkCollectedEffect ==
    [][\A d \in Drivers :
          (UpdateStepOf(d, "markCollected") /\ mutation[d].id \in PickupIds) =>
              LET row == Pickup[mutation[d].id]
                  new == Pickup'[mutation[d].id]
              IN  IF row.state = "assigned" /\ mutation'[d].pre # "unavailable"
                  THEN /\ new # row
                       /\ new.state = "collected"
                       /\ new.updated_at = mutation[d].updated_at
                       /\ new.volunteer_id = row.volunteer_id
                       /\ new.bin_id = row.bin_id
                       /\ new.created_at = row.created_at
                  ELSE new = row]_vars

\* C14 witness: one markCollected has met the Pickup assigned and left it
\* collected with a new updated_at, and another has met it in a different state.
C14_Witness ==
    \E d \in Drivers : \E e \in Drivers \ {d} :
        /\ Settled(d, "markCollected") /\ mutation[d].pre = "assigned"
        /\ Settled(e, "markCollected") /\ mutation[e].pre \in States \ {"assigned"}
        /\ mutation[d].id = mutation[e].id
        /\ Pickup[mutation[d].id].state = "collected"
        /\ Pickup[mutation[d].id].updated_at # Pickup[mutation[d].id].created_at

\* the Impact row every delivery inserts
DeliveryImpact == [cans |-> CANS, revenue_pence |-> REVENUE_PENCE, meals |-> MEALS]

\* C15: after driver a claimed P, driver b's claim of the assigned P was settled,
\* and a marked P collected and then delivered, b's claim has reported a conflict,
\* P still names a as volunteer and the impact totals are one delivery's impact.
C15_EndToEnd ==
    \A a \in Drivers : \A b \in Drivers \ {a} : \A p \in PickupIds :
        (/\ Settled(a, "markDelivered") /\ mutation[a].id = p
         /\ mutation[a].pre = "collected" /\ mutation[a].outcome = "success"
         /\ Settled(b, "acceptJob") /\ mutation[b].id = p
         /\ mutation[b].pre = "assigned") =>
            /\ mutation[b].outcome = "error"
            /\ Pickup[p].volunteer_id = a
            /\ \A data \in SelectAll(Impact) : impactQuery(data) = DeliveryImpact

\* C16: when acceptJob is settled with success for driver d, the Pickup is stored
\* assigned to d, so the myJobs query of d returns it and the availableJobs
\* query does not.
C16_SuccessfulClaimShowsInMyJobs ==
    [][\A d \in Drivers :
          (UpdateStepOf(d, "acceptJob") /\ mutation'[d].outcome = "success") =>
              /\ mutation[d].id \in DOMAIN Pickup'
              /\ Pickup'[mutation[d].id].state = "assigned"
              /\ Pickup'[mutation[d].id].volunteer_id = d
              /\ \A seq \in myJobsQuery(Pickup', d) : mutation[d].id \in Range(seq)
              /\ \A seq \in availableJobsQuery(Pickup') : mutation[d].id \notin Range(seq)]_vars

\* C17: the list the availableJobs query returned holds exactly the queued
\* Pickups of the table, each once, none before an older one.
C17_AvailableJobsListing ==
    \A d \in Drivers :
        availableJobs[d].status = "success" =>
            LET seq == availableJobs[d].data[1]
            IN  /\ Range(seq) = {p \in DOMAIN Pickup : Pickup[p].state = "queued"}
                /\ Len(seq) = Cardinality(Range(seq))
                /\ \A i \in 1..(Len(seq) - 1) :
                      Pickup[seq[i]].created_at <= Pickup[seq[i + 1]].created_at

\* C17 witness: three queued Pickups created at t1 < t2 < t3 were returned, in
\* that order.
C17_Witness ==
    \E d \in Drivers :
        /\ availableJobs[d].status = "success"
        /\ Len(availableJobs[d].data[1]) = 3
        /\ \A i \in 1..2 : Pickup[availableJobs[d].data[1][i]].created_at
                             < Pickup[availableJobs[d].data[1][i + 1]].created_at

\* C18: the list the myJobs query of driver d returned holds exactly the
\* Pickups with volunteer_id = d in state assigned or collected, each once, none
\* before an older one.
C18_MyJobsListing ==
    \A d \in Drivers :
        myJobs[d].status = "success" =>
            LET seq == myJobs[d].data[1]
            IN  /\ Range(seq) = {p \in DOMAIN Pickup :
                                   /\ Pickup[p].volunteer_id = d
                                   /\ Pickup[p].state \in {"assigned", "collected"}}
                /\ Len(seq) = Cardinality(Range(seq))
                /\ \A i \in 1..(Len(seq) - 1) :
                      Pickup[seq[i]].created_at <= Pickup[seq[i + 1]].created_at

\* C18 witness: driver d was returned an assigned and a collected Pickup of
\* different age, and not the third, which is d's but delivered.
C18_Witness ==
    \E d \in Drivers :
        /\ myJobs[d].status = "success"
        /\ Len(myJobs[d].data[1]) = 2
        /\ Pickup[myJobs[d].data[1][1]].state # Pickup[myJobs[d].data[1][2]].state
        /\ Pickup[myJobs[d].data[1][1]].created_at < Pickup[myJobs[d].data[1][2]].created_at
        /\ \E p \in DOMAIN Pickup :
              Pickup[p].volunteer_id = d /\ Pickup[p].state = "delivered"

\* the sum of one column over the rows of a ledger, a null column adding nothing
RECURSIVE ColumnSum(_, _)
ColumnSum(tbl, column) ==
    IF tbl = << >> THEN 0
    ELSE OrZero(Head(tbl)[column]) + ColumnSum(Tail(tbl), column)

\* the element-wise sum over a ledger
Totals(tbl) ==
    [cans          |-> ColumnSum(tbl, "cans"),
     revenue_pence |-> ColumnSum(tbl, "revenue_pence"),
     meals         |-> ColumnSum(tbl, "meals")]

\* C19: once the impact query of an admin page has run, the totals the page
\* holds are the element-wise sum over all Impact rows, the zero tuple for an
\* empty ledger; for index_backup.tsx and for index_new.tsx.
C19_ImpactTotalsAreSums ==
    /\ impact["index_backup"].status = "success" =>
          impact["index_backup"].data[1] = Totals(Impact)
    /\ impact["index_new"].status # "pending" =>
          impactShown(impact["index_new"].data) = Totals(Impact)

\* C20: the totals of index_backup.tsx do not depend on the order the rows are
\* returned in, equal the totals of the ledger without its last row updated
\* with that row, and equal the totals any earlier run returned for the ledger.
C20_TotalsOrderIndependent ==
    /\ \A d1 \in SelectAll(Impact) : \A d2 \in SelectAll(Impact) :
          impactQuery(d1) = impactQuery(d2)
    /\ \A data \in SelectAll(Impact) :
          /\ Len(data) > 0 =>
                impactQuery(data)
                  = reducer(impactQuery(SubSeq(data, 1, Len(data) - 1)), data[Len(data)])
          /\ impact["index_backup"].status = "success" =>
                impact["index_backup"].data[1] = impactQuery(data)

\* C20 witness: totals were computed over a ledger of three different rows, one
\* of them with null columns.
C20_Witness ==
    /\ impact["index_backup"].status = "success"
    /\ Len(Impact) = 3
    /\ Cardinality(Range(Impact)) = 3
    /\ \E i \in 1..3 : Impact[i].cans = NullColumn
    /\ impact["index_backup"].data[1].cans > 0

\* C21: no step removes or changes a row of Impact: the rows present stay, in
\* place, and the number of rows and each total of the impact query never
\* decrease.
C21_ImpactAppendOnly ==
    [][Impact' # Impact =>
          LET before == impactQuery(Impact)
              after  == impactQuery(Impact')
          IN  /\ Len(Impact') >= Len(Impact)
              /\ SubSeq(Impact', 1, Len(Impact)) = Impact
              /\ after.cans >= before.cans
              /\ after.revenue_pence >= before.revenue_pence
              /\ after.meals >= before.meals]_vars

\* C21 witness: two rows have been appended, and the Pickup has been rewritten
\* by the admin or a driver since.
C21_Witness ==
    /\ Len(Impact) = 2
    /\ impactQuery(Impact).cans = 2 * CANS
    /\ \E p \in PickupIds : Pickup[p].state # "delivered"

\* C22: when the store fails the update request of a mutation, the mutation is
\* settled with the error outcome by that step, no Pickup changes and no Impact
\* row is added; and a settled session leaves that state only by a new call.
C22_StoreErrorIsReturned ==
    [][\A d \in Drivers :
          /\ (/\ mutation[d].pc = "update"
              /\ mutation'[d].pc # "update"
              /\ mutation'[d].pre = "unavailable") =>
                 /\ Pickup' = Pickup
                 /\ Impact' = Impact
                 /\ mutation'[d].pc = "settled"
                 /\ mutation'[d].outcome = "error"
          /\ (mutation[d].pc = "settled" /\ mutation'[d].pc # "settled") =>
                 /\ issued' = issued + 1
                 /\ mutation'[d].pc = "update"
                 /\ Pickup' = Pickup /\ Impact' = Impact]_vars

\* C22 witness: the store failed the update of a markDelivered on a collected
\* Pickup: the mutation ended in error, the Pickup is still collected and no
\* Impact row exists.
C22_Witness ==
    \E d \in Drivers :
        /\ Settled(d, "markDelivered")
        /\ mutation[d].pre = "unavailable"
        /\ mutation[d].outcome = "error"
        /\ mutation[d].id \in PickupIds
        /\ Pickup[mutation[d].id].state = "collected"
        /\ Impact = << >>

\* C23: every Pickup has updated_at >= created_at.
C23_UpdatedNotBeforeCreated ==
    \A p \in DOMAIN Pickup : Pickup[p].updated_at >= Pickup[p].created_at

\* C28: a volunteer_id that is set is never changed to another volunteer.
C28_VolunteerNeverReplaced ==
    [][\A p \in PickupIds :
          Pickup[p].volunteer_id # NULL =>
              Pickup'[p].volunteer_id = Pickup[p].volunteer_id]_vars

\* C29: the update of markCollected or markDelivered changes only a Pickup
\* that has a volunteer.
C29_TransitionsNeedVolunteer ==
    [][\A d \in Drivers : \A p \in PickupIds :
          (/\ mutation[d].op \in {"markCollected", "markDelivered"}
           /\ mutation[d].pc = "update"
           /\ mutation'[d].pc # "update"
           /\ mutation[d].id = p
           /\ Pickup'[p] # Pickup[p]) =>
              Pickup[p].volunteer_id # NULL]_vars

\* C30: read from one table, the availableJobs list a session was returned
\* shares no Pickup with the myJobs list any driver was returned, and the myJobs
\* lists of two drivers share none.
C30_ListsPartition ==
    /\ \A d \in Drivers : \A v \in Drivers :
          (availableJobs[d].status = "success" /\ myJobs[v].status = "success") =>
              Range(availableJobs[d].data[1]) \cap Range(myJobs[v].data[1]) = {}
    /\ \A v1 \in Drivers : \A v2 \in Drivers \ {v1} :
          (myJobs[v1].status = "success" /\ myJobs[v2].status = "success") =>
              Range(myJobs[v1].data[1]) \cap Range(myJobs[v2].data[1]) = {}

\* C30 witness: one Pickup is listed as available, one in each driver's myJobs.
C30_Witness ==
    \E d \in Drivers : \E v1 \in Drivers : \E v2 \in Drivers \ {v1} :
        /\ availableJobs[d].status = "success" /\ Len(availableJobs[d].data[1]) = 1
        /\ myJobs[v1].status = "success" /\ Len(myJobs[v1].data[1]) = 1
        /\ myJobs[v2].status = "success" /\ Len(myJobs[v2].data[1]) = 1

\* the Pickups stored as delivered
DeliveredPickups == {p \in DOMAIN Pickup : Pickup[p].state = "delivered"}

\* k times the impact of one delivery
Deliveries(k) ==
    [cans |-> CANS * k, revenue_pence |-> REVENUE_PENCE * k, meals |-> MEALS * k]

\* C25: when every driver has called markDelivered on the same Pickup while it
\* was collected and nothing else was called, the calls once settled have
\* appended exactly one Impact row.
C25_ConcurrentDeliveriesAppendOnce ==
    \A p \in DOMAIN Pickup :
        (/\ issued = Cardinality(Drivers)
         /\ \A d \in Drivers :
               /\ Settled(d, "markDelivered")
               /\ mutation[d].id = p
               /\ mutation[d].seen = "collected"
               /\ mutation[d].outcome = "success") =>
            Len(Impact) = 1

\* C26: an insert of markDelivered that fails leaves the Pickup delivered and
\* Impact as it was; and the insert of a markDelivered called again on a Pickup
\* already delivered, no other Pickup being delivered, never makes Impact hold
\* more than one row.
C26_ResubmittedDeliveryAppendsOnce ==
    [][\A d \in Drivers :
          InsertStepOf(d) =>
              /\ mutation'[d].outcome = "error" =>
                    /\ Impact' = Impact
                    /\ Pickup' = Pickup
                    /\ mutation[d].pre = "collected" =>
                          Pickup'[mutation[d].id].state = "delivered"
              /\ (/\ mutation[d].seen = "delivered"
                  /\ mutation[d].pre = "delivered"
                  /\ DeliveredPickups = {mutation[d].id}) =>
                    Len(Impact') <= 1]_vars

\* C27: when as many Impact rows exist as Pickups are delivered, k, the totals
\* of the impact query are k times {200, 160, 10}.
C27_FixedImpactPerDelivery ==
    Len(Impact) = Cardinality(DeliveredPickups) =>
        \A data \in SelectAll(Impact) :
            impactQuery(data) = Deliveries(Cardinality(DeliveredPickups))

\* C27 witness: two Pickups were delivered, each by a markDelivered that met it
\* collected and appended its row.
C27_Witness ==
    /\ Cardinality(DeliveredPickups) = 2
    /\ Len(Impact) = 2
    /\ \A d \in Drivers :
          /\ Settled(d, "markDelivered")
          /\ mutation[d].pre = "collected"
          /\ mutation[d].outcome = "success"
    /\ \E d \in Drivers : \E e \in Drivers : mutation[d].id # mutation[e].id

\* C24: the report page ends in status error, never success, when its id is
\* missing, is not a string or matches no Bin; and where it shows success the
\* Bin of that id has status full.
C24_InvalidBinIdIsAnError ==
    /\ BinReport.status = "success" =>
          /\ BinReport.id.typeof = "string"
          /\ BinReport.id.value \in DOMAIN Bin
          /\ Bin[BinReport.id.value].status = "full"
    /\ (/\ BinReport.status # "loading"
        /\ \/ BinReport.id.typeof # "string"
           \/ BinReport.id.value \notin DOMAIN Bin) =>
          BinReport.status = "error"

====
